---- MODULE Spec2Model ----
(***************************************************************************)
(* Session conversation and prompt-cache orchestration of the Librarian    *)
(* agent: ConversationManager (turn store, session side-cache, cleanup)    *)
(* and LibrarianClaudeAgent.chat (request assembly, model call, append).   *)
(* Above them the API layer: SessionManager (session records) and the     *)
(* endpoints of api.py that create a session, send a message over an SSE   *)
(* stream, and delete a session.                                           *)
(*                                                                         *)
(* Conventions.                                                            *)
(*  - A Python str is a "text": a tuple of string atoms standing for their *)
(*    concatenation (an f-string is the tuple of its pieces).  "" is <<>>. *)
(*  - A Python dict is a function whose DOMAIN is the set of keys present. *)
(*  - time.time() is the integer clock `now`.                              *)
(*  - chat() is a coroutine.  The only await in it that yields to the      *)
(*    event loop is the model call (lines 132-148): search_documentation   *)
(*    and the tool executors are coroutines without a suspension point.    *)
(*    So chat is two atomic steps around the model call.                   *)
(***************************************************************************)
EXTENDS Integers, Sequences, FiniteSets, TLC

\* ------------------------------------------------------------- bounds
MaxTime == 2
MaxTurns == 3
MaxReq == 2
MaxAge == 1
MaxN == 4
MaxTokens == 2

Sessions == {"s1", "s2"}
Keys == {"docs"}
Requests == 1..MaxReq

\* ConversationManager.__init__(cache_ttl): a constructor parameter (default
\* 300 s, the unit tests use 1 and 600); the clock of the model counts in
\* units in which the configured TTL is 1.
cache_ttl == 1

\* --------------------------------------------------------------- texts
None == <<"<None>">>
EmptyText == <<>>

\* User messages, as lower-cased word sequences.
Messages == { <<"hello">>, <<"create", "a", "docx">> }

\* Values a caller stores directly with set_session_cache.
Values == { <<"X">> }

Max(a, b) == IF a >= b THEN a ELSE b
Min(a, b) == IF a <= b THEN a ELSE b

\* --------------------------------------------------------- Python dicts
DictGet(d, k, default) == IF k \in DOMAIN d THEN d[k] ELSE default
DictSet(d, k, v) == [x \in (DOMAIN d) \cup {k} |-> IF x = k THEN v ELSE d[x]]
DictDel(d, k) == [x \in (DOMAIN d) \ {k} |-> d[x]]
EmptyDict == [x \in {} |-> 0]

\* -------------------------------------------------------- Python slices
\* seq[lo:hi] for a list of length n: a negative index counts from the end
\* and every index is clamped into 0..n.
PyIndex(i, n) == IF i < 0 THEN Max(n + i, 0) ELSE Min(i, n)
PySlice(seq, lo, hi) ==
    SubSeq(seq, PyIndex(lo, Len(seq)) + 1, PyIndex(hi, Len(seq)))

\* ------------------------------------------------------ SkillManager
\* `phrase in message_lower` for a keyword phrase: a contiguous run of words.
Has(message, phrase) ==
    \E i \in 1..Len(message) :
        /\ i + Len(phrase) - 1 <= Len(message)
        /\ SubSeq(message, i, i + Len(phrase) - 1) = phrase

AnyWord(message, words) == \E w \in words : Has(message, w)

\* SkillManager.detect_needed_skills: keyword matching, in source order.
DetectNeededSkills(message) ==
    (IF AnyWord(message, {<<"word">>, <<"docx">>, <<"document">>, <<"doc">>})
        THEN <<"docx">> ELSE <<>>)
    \o (IF AnyWord(message, {<<"powerpoint">>, <<"pptx">>, <<"presentation">>, <<"slide">>})
        THEN <<"pptx">> ELSE <<>>)
    \o (IF AnyWord(message, {<<"excel">>, <<"xlsx">>, <<"spreadsheet">>, <<"workbook">>})
        THEN <<"xlsx">> ELSE <<>>)
    \o (IF AnyWord(message, {<<"pdf">>, <<"portable", "document">>})
        THEN <<"pdf">> ELSE <<>>)
    \o (IF AnyWord(message, {<<"frontend">>, <<"ui">>, <<"interface">>, <<"react">>, <<"html">>, <<"css">>})
        THEN <<"frontend-design">> ELSE <<>>)
    \o (IF AnyWord(message, {<<"theme">>, <<"style">>, <<"color">>, <<"brand">>})
        THEN (IF Has(message, <<"anthropic">>)
                 THEN <<"brand-guidelines">> ELSE <<"theme-factory">>)
        ELSE <<>>)
    \o (IF AnyWord(message, {<<"create", "skill">>, <<"new", "skill">>, <<"skill", "for">>})
        THEN <<"skill-creator">> ELSE <<>>)
    \o (IF AnyWord(message, {<<"claude", "api">>, <<"anthropic">>, <<"claude", "code">>, <<"pricing">>, <<"rate", "limit">>})
        THEN <<"product-self-knowledge">> ELSE <<>>)

\* self.skills, as load_all_skills left it at startup: name -> content.
skills == [n \in {"docx"} |-> <<"docx guide">>]

\* "\n".join(parts)
RECURSIVE Join(_)
Join(parts) ==
    IF parts = <<>> THEN EmptyText ELSE Head(parts) \o Join(Tail(parts))

\* LibrarianClaudeAgent._build_skill_context
RECURSIVE SkillContexts(_)
SkillContexts(needed_skills) ==
    IF needed_skills = <<>> THEN <<>>
    ELSE (IF Head(needed_skills) \in DOMAIN skills
             THEN << <<"=== SKILL:", Head(needed_skills)>> \o skills[Head(needed_skills)] >>
             ELSE <<>>)
         \o SkillContexts(Tail(needed_skills))

BuildSkillContext(needed_skills) ==
    IF needed_skills = <<>> THEN EmptyText ELSE Join(SkillContexts(needed_skills))

\* ------------------------------------------------------ documentation
\* AgentTools.search_documentation: the mock answer, three results and
\* three sources for any query.
SearchDocumentation(query) ==
    [results |-> << <<"Result 1 for">> \o query, <<"Result 2 for">> \o query,
                    <<"Result 3 for">> \o query >>,
     sources |-> << "Example Module 1", "Example Module 2", "Example Module 3" >>]

\* f"[DOC {i+1}]" for the at most five results asked for (n_results=5)
DocTag == << "[DOC 1]", "[DOC 2]", "[DOC 3]", "[DOC 4]", "[DOC 5]" >>

\* LibrarianClaudeAgent._format_docs_for_cache
FormatDocsForCache(results) ==
    IF results.results = <<>> THEN EmptyText
    ELSE Join([i \in 1..Len(results.results) |->
                 << DocTag[i] >> \o
                 << IF i <= Len(results.sources) THEN results.sources[i] ELSE "Unknown" >>
                 \o results.results[i]])

\* Python truthiness of an Optional[str]
NeverTruthy(v) == FALSE
Truthy(v) == v # None /\ v # EmptyText

\* --------------------------------------------------- request assembly
\* One message of the outbound request.  `content` is always the list of
\* its content parts (a plain string content is one part without
\* cache_control).  `site` names the append statement of
\* _build_cached_messages that emitted the message; the code sends no such
\* field, it only lets the properties name the blocks.
Part(text, cache_control) == [text |-> text, cache_control |-> cache_control]

Msg(role, text, site) ==
    [role |-> role, content |-> << Part(text, FALSE) >>, site |-> site]

\* A context block's user message: the context text, then a marker part
\* that carries cache_control = {"type": "ephemeral"}.
CachedMsgMarkFirst(text, marker, site) ==
    [role |-> "user", content |-> << Part(text, TRUE), Part(marker, FALSE) >>,
     site |-> site]
CachedMsg(text, marker, site) ==
    [role |-> "user", content |-> << Part(text, FALSE), Part(marker, TRUE) >>,
     site |-> site]

\* conversation[:-2], "all but last 2 turns"
CachedTurnsOffByOne(conversation) == PySlice(conversation, 0, -1)
CachedTurns(conversation) == PySlice(conversation, 0, -2)

\* conversation[-2:], "recent turns"
RecentTurns(conversation) == PySlice(conversation, -2, Len(conversation))

\* the user / assistant message pair appended for every turn of `turns`
TurnMessages(turns, site) ==
    [i \in 1..(2 * Len(turns)) |->
        IF i % 2 = 1
        THEN Msg("user", turns[(i + 1) \div 2].user_message, site)
        ELSE Msg("assistant", turns[i \div 2].agent_response, site)]

HistoryMessages(conversation) ==
    IF conversation # <<>>
    THEN TurnMessages(CachedTurns(conversation), "older")
         \o TurnMessages(RecentTurns(conversation), "recent")
    ELSE <<>>

SkillMessages(skill_context) ==
    IF skill_context # EmptyText
    THEN << CachedMsg(<<"SKILL CONTEXT:">> \o skill_context,
                      <<"Skills loaded and ready.">>, "skill"),
            Msg("assistant",
                <<"I've reviewed the skills and I'm ready to apply them.">>,
                "skill") >>
    ELSE <<>>

DocMessages(doc_context) ==
    IF doc_context # EmptyText
    THEN << CachedMsg(<<"DOCUMENTATION:">> \o doc_context,
                      <<"Documentation loaded.">>, "doc"),
            Msg("assistant", <<"I've reviewed the documentation.">>, "doc") >>
    ELSE <<>>

\* LibrarianClaudeAgent._build_cached_messages
BuildCachedMessages(message, conversation, skill_context, doc_context) ==
    HistoryMessages(conversation)
    \o SkillMessages(skill_context)
    \o DocMessages(doc_context)
    \o << Msg("user", message, "message") >>

\* AgentTools.get_tool_definitions: the five tools, by name
ToolNames == << "search_documentation", "load_documentation", "query_skill",
                "update_knowledge_graph", "get_catalog" >>

\* LibrarianClaudeAgent._get_cached_tools: cache_control on the last tool
GetCachedTools ==
    [i \in 1..Len(ToolNames) |->
        [name |-> ToolNames[i], cache_control |-> (i = Len(ToolNames))]]

\* the system= argument of the model call: one cacheable text block
SystemBlocks == << Part(<<"You are the Librarian Agent">>, TRUE) >>

\* The arguments of self.claude.messages.create, chat lines 132-148
ModelRequest(messages) ==
    [system |-> SystemBlocks, tools |-> GetCachedTools, messages |-> messages]

\* ------------------------------------------------ ConversationManager
\* One conversation turn, add_turn lines 38-44.  `by` is a history label
\* (the chat request that appended the turn, 0 for a direct add_turn call);
\* no modelled code reads it.
Turn(timestamp, user_message, agent_response, tool_calls, skills_used, by) ==
    [timestamp |-> timestamp, user_message |-> user_message,
     agent_response |-> agent_response, tool_calls |-> tool_calls,
     skills_used |-> skills_used, by |-> by]

\* self.conversations[session_id].append(turn) on a defaultdict(list)
AppendTurnFront(convs, session_id, turn) ==
    DictSet(convs, session_id, << turn >> \o DictGet(convs, session_id, <<>>))
AppendTurnOverwrite(convs, session_id, turn) ==
    DictSet(convs, session_id, << turn >>)
AppendTurn(convs, session_id, turn) ==
    DictSet(convs, session_id, DictGet(convs, session_id, <<>>) \o << turn >>)

\* ConversationManager.get_conversation
GetConversation(convs, session_id) == DictGet(convs, session_id, <<>>)

\* What reading a session's history leaves in the defaultdict: dict.get
\* (line 51) never inserts the default, where indexing the defaultdict
\* would store an empty list under the id.
AfterGetItem(convs, session_id) ==
    DictSet(convs, session_id, DictGet(convs, session_id, <<>>))
AfterGet(convs, session_id) == convs

\* ConversationManager.get_last_n_turns, lines 56-57
GetLastNTurnsOn(convs, session_id, n) ==
    LET conversation == GetConversation(convs, session_id)
    IN  IF Len(conversation) > n
        THEN PySlice(conversation, 0 - n, Len(conversation))
        ELSE conversation

\* ConversationManager.get_active_session_count and get_all_sessions
GetActiveSessionCount(convs) == Cardinality(DOMAIN convs)
GetAllSessions(convs) == DOMAIN convs

\* d[session_id][key] = v on a defaultdict(dict)
SetEntryIfAbsent(d, session_id, key, v) ==
    IF key \in DOMAIN DictGet(d, session_id, EmptyDict) THEN d
    ELSE DictSet(d, session_id, DictSet(DictGet(d, session_id, EmptyDict), key, v))
SetEntry(d, session_id, key, v) ==
    DictSet(d, session_id, DictSet(DictGet(d, session_id, EmptyDict), key, v))

\* del d[session_id][key]
DelEntryKeep(d, session_id, key) == d
DelEntry(d, session_id, key) ==
    [d EXCEPT ![session_id] = DictDel(d[session_id], key)]

\* del self.cache_timestamps[session_id][key], get_session_cache line 77
DelTimestamp(d, session_id, key) == DelEntry(d, session_id, key)

\* cache_age > self.cache_ttl, get_session_cache line 74
ExpiredAtTtl(cache_age) == cache_age >= cache_ttl
Expired(cache_age) == cache_age > cache_ttl

\* ConversationManager.get_session_cache on the two dicts `sc` and `ts` at
\* time t: the value returned, the dicts it leaves, whether it found the
\* entry expired, and whether it raised (line 73 reads the timestamp of a
\* key that cache_timestamps does not hold: the defaultdict creates the
\* session's dict, then KeyError).
GetSessionCacheOn(sc, ts, session_id, key, t) ==
    IF key \notin DOMAIN DictGet(sc, session_id, EmptyDict)
    THEN [value |-> None, sc |-> sc, ts |-> ts, evict |-> FALSE,
          error |-> FALSE]
    ELSE IF key \notin DOMAIN DictGet(ts, session_id, EmptyDict)
    THEN [value |-> None, sc |-> sc,
          ts |-> DictSet(ts, session_id, DictGet(ts, session_id, EmptyDict)),
          evict |-> FALSE, error |-> TRUE]
    ELSE IF Expired(t - ts[session_id][key])
         THEN [value |-> None,
               sc |-> DelEntry(sc, session_id, key),
               ts |-> DelTimestamp(ts, session_id, key),
               evict |-> TRUE, error |-> FALSE]
         ELSE [value |-> sc[session_id][key], sc |-> sc, ts |-> ts,
               evict |-> FALSE, error |-> FALSE]

\* ConversationManager.clear_session_cache, on either dict
ClearAll(d, session_id) == EmptyDict
ClearOn(d, session_id) == DictDel(d, session_id)

\* LibrarianClaudeAgent._process_response: the text and tool calls of the
\* result (cost and usage are computed from response.usage alone).
NumText == << "1", "2", "3", "4", "5", "6", "7", "8", "9" >>
ProcessResponse(response) ==
    [message |->
        IF response.stop_reason = "tool_use" /\ response.tool_calls # <<>>
        THEN response.text
             \o << "[Tool Results:", NumText[Len(response.tool_calls)],
                   "tools executed]" >>
        ELSE response.text,
     tool_calls |-> response.tool_calls]

\* What the model call may answer.
ModelResponses ==
    { [text |-> <<"Mock response">>, tool_calls |-> <<>>,
       stop_reason |-> "end_turn"],
      [text |-> <<"Searching">>, tool_calls |-> <<"search_documentation">>,
       stop_reason |-> "tool_use"] }

\* ---------------------------------------------------------------- cost
\* _calculate_cost_with_cache, lines 393-396.  Amounts are exact, in units
\* of 10^-8 dollar: 3.00 dollars per million tokens is 300 units per token.
PROMPT_PRICE == 300
CACHE_WRITE_PRICE == 375
CACHE_READ_PRICE == 30
OUTPUT_PRICE == 1500

\* response.usage: an object that has some of the four counts as
\* attributes, each an integer
UsageFields ==
    { "input_tokens", "output_tokens", "cache_creation_input_tokens",
      "cache_read_input_tokens" }
TokenCounts == (0 - 1)..MaxTokens
Usages == UNION { [D -> TokenCounts] : D \in SUBSET UsageFields }

\* total_cost = sum(costs.values()), line 408
TotalCostNoCacheWrite(costs) == costs.prompt + costs.cache_read + costs.output
TotalCost(costs) ==
    costs.prompt + costs.cache_write + costs.cache_read + costs.output

\* savings, lines 411-415
SavingsGross(cache_read) ==
    IF cache_read > 0 THEN cache_read * PROMPT_PRICE ELSE 0
Savings(cache_read) ==
    IF cache_read > 0
    THEN cache_read * PROMPT_PRICE - cache_read * CACHE_READ_PRICE
    ELSE 0

\* a quotient num / den * 100, kept exact as its two terms
Percentage(num, den) == [num |-> num * 100, den |-> den]
NoCosts == [prompt |-> 0, cache_write |-> 0, cache_read |-> 0, output |-> 0]
NoCost ==
    [raised |-> "none", total |-> 0, breakdown |-> NoCosts, savings |-> 0,
     savings_percentage |-> Percentage(0, 1)]

\* LibrarianClaudeAgent._calculate_cost_with_cache(usage), lines 389-422.
\* usage.input_tokens and usage.output_tokens are read as attributes
\* (AttributeError when absent); the cache counts default to 0 (getattr).
\* `raised` names the exception that leaves the function, or "none".
CalculateCostWithCache(usage) ==
    LET cache_creation == DictGet(usage, "cache_creation_input_tokens", 0)
        cache_read == DictGet(usage, "cache_read_input_tokens", 0)
    IN  IF {"input_tokens", "output_tokens"} \subseteq DOMAIN usage
        THEN LET costs ==
                   [prompt |-> usage["input_tokens"] * PROMPT_PRICE,
                    cache_write |-> cache_creation * CACHE_WRITE_PRICE,
                    cache_read |-> cache_read * CACHE_READ_PRICE,
                    output |-> usage["output_tokens"] * OUTPUT_PRICE]
                 total_cost == TotalCost(costs)
                 savings == Savings(cache_read)
             IN  IF savings > 0 /\ total_cost + savings = 0
                 THEN [NoCost EXCEPT !.raised = "ZeroDivisionError"]
                 ELSE [raised |-> "none",
                       total |-> total_cost,
                       breakdown |-> costs,
                       savings |-> savings,
                       savings_percentage |->
                           IF savings > 0
                           THEN Percentage(savings, total_cost + savings)
                           ELSE Percentage(0, 1)]
        ELSE [NoCost EXCEPT !.raised = "AttributeError"]

\* ------------------------------------------------------------- records
NoRet ==
    [op |-> "none", session_id |-> "", key |-> "", value |-> None,
     expired |-> FALSE, error |-> FALSE, count |-> 0, max_age |-> 0,
     turns |-> <<>>, n |-> 0, usage |-> EmptyDict, cost |-> NoCost]
NoWrite == [value |-> None, at |-> 0 - 1]
IdleFrame ==
    [pc |-> "idle", session_id |-> "", message |-> EmptyText,
     conversation |-> <<>>, needed_skills |-> <<>>,
     request |-> ModelRequest(<<>>), retrieved |-> FALSE,
     retry |-> FALSE, cleanedSince |-> FALSE]

\* the frame of an API request that has not arrived; `before` is what the
\* session held when send_message was entered
NoSnapshot == [record |-> EmptyDict, cache |-> EmptyDict, history |-> <<>>]
IdleStream ==
    [pc |-> "idle", session_id |-> "", message |-> EmptyText,
     before |-> NoSnapshot]

VARIABLES
    now,                 \* time.time()
    conversations,       \* session_id -> list of turns
    session_cache,       \* session_id -> {key: value}
    cache_timestamps,    \* session_id -> {key: timestamp}
    session_start_times, \* session_id -> time of the first add_turn
    chat,                \* request -> the chat coroutine's frame
    ret,                 \* what the ConversationManager call just made returned
    written,             \* history: <<session, key>> -> last set, or NoWrite
    evicted,             \* history: <<session, key>> -> a get evicted it, no set since
    sessions,            \* SessionManager.sessions: session_id -> record
    issued,              \* the session ids uuid4 has handed out
    stream               \* request -> the frame of its send_message / SSE stream

apiVars == <<sessions, issued, stream>>

vars == <<now, conversations, session_cache, cache_timestamps,
          session_start_times, chat, ret, written, evicted,
          sessions, issued, stream>>

Entries == Sessions \X Keys

\* The history n direct add_turn calls at time 0 leave for one session
\* (the turns of test_get_last_n_turns: "Message i", "Response i").
RECURSIVE HistoryOf(_, _)
HistoryOf(session_id, n) ==
    IF n = 0 THEN EmptyDict
    ELSE AppendTurn(HistoryOf(session_id, n - 1), session_id,
                    Turn(0, <<"Message", NumText[n]>>,
                         <<"Response", NumText[n]>>, <<>>, <<>>, 0))

\* api.py line 72 and SessionManager.__init__: no session, no request.
InitApi ==
    /\ sessions = EmptyDict
    /\ issued = {}
    /\ stream = [r \in Requests |-> IdleStream]

\* After construction (ConversationManager.__init__), nothing is stored.
InitEmpty ==
    /\ now = 0
    /\ conversations = EmptyDict
    /\ session_cache = EmptyDict
    /\ cache_timestamps = EmptyDict
    /\ session_start_times = EmptyDict
    /\ chat = [r \in Requests |-> IdleFrame]
    /\ ret = NoRet
    /\ written = [e \in Entries |-> NoWrite]
    /\ evicted = [e \in Entries |-> FALSE]
    /\ InitApi

\* A session that already holds 0..MaxTurns turns (add_turn, lines 35-46).
InitHistory ==
    \E n \in 0..MaxTurns :
        /\ now = 0
        /\ conversations = HistoryOf("s1", n)
        /\ session_cache = EmptyDict
        /\ cache_timestamps = EmptyDict
        /\ session_start_times =
              [sid \in DOMAIN HistoryOf("s1", n) |-> 0]
        /\ chat = [r \in Requests |-> IdleFrame]
        /\ ret = NoRet
        /\ written = [e \in Entries |-> NoWrite]
        /\ evicted = [e \in Entries |-> FALSE]
        /\ InitApi

\* time passes
Tick ==
    /\ now < MaxTime
    /\ now' = now + 1
    /\ ret' = NoRet
    /\ UNCHANGED <<conversations, session_cache, cache_timestamps,
                   session_start_times, chat, written, evicted>>
    /\ UNCHANGED apiVars

\* session_start_times after add_turn, lines 35-36
StartTimesAfterAdd(session_id) ==
    IF session_id \notin DOMAIN session_start_times
    THEN DictSet(session_start_times, session_id, now)
    ELSE session_start_times

\* _process_response, lines 351-353: the cost of a response's usage
CalculateCost(usage) ==
    /\ ret' = [NoRet EXCEPT !.op = "cost", !.usage = usage,
                            !.cost = CalculateCostWithCache(usage)]
    /\ UNCHANGED <<now, conversations, session_cache, cache_timestamps,
                   session_start_times, chat, written, evicted>>
    /\ UNCHANGED apiVars

\* ConversationManager.get_conversation called directly
ReadConversation(session_id) ==
    /\ conversations' = AfterGet(conversations, session_id)
    /\ ret' = [NoRet EXCEPT !.op = "get_conversation",
                            !.session_id = session_id,
                            !.turns = GetConversation(conversations, session_id)]
    /\ UNCHANGED <<now, session_cache, cache_timestamps, session_start_times,
                   chat, written, evicted>>
    /\ UNCHANGED apiVars

\* ConversationManager.get_last_n_turns called directly
GetLastNTurns(session_id, n) ==
    /\ conversations' = AfterGet(conversations, session_id)
    /\ ret' = [NoRet EXCEPT !.op = "get_last_n_turns",
                            !.session_id = session_id,
                            !.n = n,
                            !.turns = GetLastNTurnsOn(conversations,
                                                      session_id, n)]
    /\ UNCHANGED <<now, session_cache, cache_timestamps, session_start_times,
                   chat, written, evicted>>
    /\ UNCHANGED apiVars

\* ConversationManager.set_session_cache called directly
SetSessionCache(session_id, key, value) ==
    /\ session_cache' = SetEntry(session_cache, session_id, key, value)
    /\ cache_timestamps' = SetEntry(cache_timestamps, session_id, key, now)
    /\ written' = [written EXCEPT ![<<session_id, key>>] =
                      [value |-> value, at |-> now]]
    /\ evicted' = [evicted EXCEPT ![<<session_id, key>>] = FALSE]
    /\ ret' = [NoRet EXCEPT !.op = "set", !.session_id = session_id,
                            !.key = key]
    /\ UNCHANGED <<now, conversations, session_start_times, chat>>
    /\ UNCHANGED apiVars

\* ConversationManager.get_session_cache called directly
GetSessionCache(session_id, key) ==
    LET g == GetSessionCacheOn(session_cache, cache_timestamps,
                               session_id, key, now)
    IN  /\ session_cache' = g.sc
        /\ cache_timestamps' = g.ts
        /\ evicted' = IF g.evict
                      THEN [evicted EXCEPT ![<<session_id, key>>] = TRUE]
                      ELSE evicted
        /\ ret' = [NoRet EXCEPT !.op = "get", !.session_id = session_id,
                                !.key = key, !.value = g.value,
                                !.expired = g.evict, !.error = g.error]
        /\ UNCHANGED <<now, conversations, session_start_times, chat,
                       written>>
        /\ UNCHANGED apiVars

\* ConversationManager.clear_session_cache called directly
ClearSessionCache(session_id) ==
    /\ session_cache' = ClearOn(session_cache, session_id)
    /\ cache_timestamps' = ClearOn(cache_timestamps, session_id)
    /\ written' = [e \in Entries |->
                      IF e[1] = session_id THEN NoWrite ELSE written[e]]
    /\ evicted' = [e \in Entries |->
                      IF e[1] = session_id THEN FALSE ELSE evicted[e]]
    /\ ret' = [NoRet EXCEPT !.op = "clear", !.session_id = session_id]
    /\ UNCHANGED <<now, conversations, session_start_times, chat>>
    /\ UNCHANGED apiVars

\* sessions_to_remove of cleanup_old_sessions, lines 136-144
SessionsToRemoveAtAge(max_age) ==
    { sid \in DOMAIN conversations :
        /\ conversations[sid] # <<>>
        /\ now - conversations[sid][Len(conversations[sid])].timestamp >= max_age }
SessionsToRemove(max_age) ==
    { sid \in DOMAIN conversations :
        /\ conversations[sid] # <<>>
        /\ now - conversations[sid][Len(conversations[sid])].timestamp > max_age }

\* ConversationManager.cleanup_old_sessions
CleanupOldSessions(max_age) ==
    LET gone == SessionsToRemove(max_age)
    IN  /\ conversations' = [sid \in (DOMAIN conversations) \ gone |->
                                conversations[sid]]
        /\ session_cache' = [sid \in (DOMAIN session_cache) \ gone |->
                                session_cache[sid]]
        /\ cache_timestamps' = [sid \in (DOMAIN cache_timestamps) \ gone |->
                                   cache_timestamps[sid]]
        /\ session_start_times' =
              [sid \in (DOMAIN session_start_times) \ gone |->
                  session_start_times[sid]]
        /\ written' = [e \in Entries |->
                          IF e[1] \in gone THEN NoWrite ELSE written[e]]
        /\ evicted' = [e \in Entries |->
                          IF e[1] \in gone THEN FALSE ELSE evicted[e]]
        /\ chat' = [r \in Requests |->
                      IF chat[r].pc # "idle" /\ chat[r].session_id \in gone
                      THEN [chat[r] EXCEPT !.cleanedSince = TRUE]
                      ELSE chat[r]]
        /\ ret' = [NoRet EXCEPT !.op = "cleanup", !.max_age = max_age,
                                !.count = Cardinality(gone)]
        /\ UNCHANGED now
        /\ UNCHANGED apiVars

\* LibrarianClaudeAgent.chat, lines 109-148: from the read of the history
\* to the model call, where the coroutine suspends (or, should the
\* side-cache lookup raise, to the exception leaving chat at line 121).
ChatAssemble(r, session_id, message) ==
    LET conversation == GetConversation(conversations, session_id)
        needed_skills == DetectNeededSkills(message)
        skill_context == BuildSkillContext(needed_skills)
        g == GetSessionCacheOn(session_cache, cache_timestamps,
                               session_id, "docs", now)
        hit == Truthy(g.value)
        context == FormatDocsForCache(SearchDocumentation(message))
        doc_context == IF hit THEN g.value ELSE context
        messages == BuildCachedMessages(message, conversation,
                                        skill_context, doc_context)
    IN  /\ session_cache' =
              IF hit \/ g.error THEN g.sc
              ELSE SetEntry(g.sc, session_id, "docs", context)
        /\ cache_timestamps' =
              IF hit \/ g.error THEN g.ts
              ELSE SetEntry(g.ts, session_id, "docs", now)
        /\ written' =
              IF hit \/ g.error THEN written
              ELSE [written EXCEPT ![<<session_id, "docs">>] =
                       [value |-> context, at |-> now]]
        /\ evicted' =
              IF hit \/ g.error THEN evicted
              ELSE [evicted EXCEPT ![<<session_id, "docs">>] = FALSE]
        /\ chat' = [chat EXCEPT ![r] =
              IF g.error
              THEN [IdleFrame EXCEPT !.pc = "failed",
                                     !.session_id = session_id,
                                     !.message = message,
                                     !.conversation = conversation]
              ELSE [pc |-> "awaiting", session_id |-> session_id,
                    message |-> message, conversation |-> conversation,
                    needed_skills |-> needed_skills,
                    request |-> ModelRequest(messages),
                    retrieved |-> ~hit,
                    retry |-> chat[r].pc = "failed",
                    cleanedSince |-> FALSE]]
        /\ ret' = NoRet
        /\ UNCHANGED <<now, conversations, session_start_times>>

\* A caller's first call of chat for request r.  Requests are numbered in
\* the order of their calls.
ChatStart(r, session_id, message) ==
    /\ chat[r].pc = "idle"
    /\ \A q \in Requests : q < r => chat[q].pc # "idle"
    /\ ChatAssemble(r, session_id, message)
    /\ UNCHANGED apiVars

\* The caller of a request whose model call failed calls chat again with
\* the same message and session id.
ChatRetry(r) ==
    /\ chat[r].pc = "failed"
    /\ chat[r].request.messages # <<>>
    /\ ChatAssemble(r, chat[r].session_id, chat[r].message)
    /\ UNCHANGED apiVars

\* LibrarianClaudeAgent.chat, lines 109-121, when the side-cache has no
\* usable "docs" entry and search_documentation raises (the call to the
\* Universal Memory Bridge that the stub of agent_tools.py 183-200 stands
\* for): _get_documentation_context has no handler, nor has chat, so the
\* exception leaves chat at line 121 with no request assembled.  The get
\* before it has already evicted an expired entry.
ChatRetrievalFails(r, session_id, message) ==
    LET conversation == GetConversation(conversations, session_id)
        g == GetSessionCacheOn(session_cache, cache_timestamps,
                               session_id, "docs", now)
    IN  /\ chat[r].pc = "idle"
        /\ \A q \in Requests : q < r => chat[q].pc # "idle"
        /\ ~Truthy(g.value)
        /\ ~g.error
        /\ session_cache' = g.sc
        /\ cache_timestamps' = g.ts
        /\ evicted' = IF g.evict
                      THEN [evicted EXCEPT ![<<session_id, "docs">>] = TRUE]
                      ELSE evicted
        /\ chat' = [chat EXCEPT ![r] =
              [IdleFrame EXCEPT !.pc = "raised",
                                !.session_id = session_id,
                                !.message = message,
                                !.conversation = conversation,
                                !.needed_skills = DetectNeededSkills(message),
                                !.retrieved = TRUE]]
        /\ ret' = NoRet
        /\ UNCHANGED <<now, conversations, session_start_times, written>>
        /\ UNCHANGED apiVars

\* LibrarianClaudeAgent.chat, lines 150-168: the model call returned
\* `response`; process it and save the turn.
ChatComplete(r, response) ==
    LET f == chat[r]
        result == ProcessResponse(response)
    IN  /\ f.pc = "awaiting"
        /\ session_start_times' = StartTimesAfterAdd(f.session_id)
        /\ conversations' =
              AppendTurn(conversations, f.session_id,
                         Turn(now, f.message, result.message,
                              result.tool_calls, f.needed_skills, r))
        /\ chat' = [chat EXCEPT ![r].pc = "done"]
        /\ ret' = NoRet
        /\ UNCHANGED <<now, session_cache, cache_timestamps, written,
                       evicted>>
        /\ UNCHANGED apiVars

\* LibrarianClaudeAgent.chat: the model call raised (transport failure,
\* timeout, cancellation); the exception leaves chat at line 132.
ChatFail(r) ==
    /\ chat[r].pc = "awaiting"
    /\ chat' = [chat EXCEPT ![r].pc = "failed"]
    /\ ret' = NoRet
    /\ UNCHANGED <<now, conversations, session_cache, cache_timestamps,
                   session_start_times, written, evicted>>
    /\ UNCHANGED apiVars

\* ------------------------------------------------ API layer (part 2)
agentVars == <<conversations, session_cache, cache_timestamps,
               session_start_times, chat, written, evicted>>

\* the record SessionManager.create_session stores (lines 24-31)
SessionRecord(session_id, t) ==
    [session_id |-> session_id, created_at |-> t, last_activity |-> t,
     turn_count |-> 0, messages |-> <<>>]

\* SessionManager.update_activity on the dict `ss` at time t
UpdateActivity(ss, session_id, t) ==
    IF session_id \in DOMAIN ss
    THEN [ss EXCEPT ![session_id].last_activity = t,
                    ![session_id].turn_count = @ + 1]
    ELSE ss

\* SessionManager.add_message on the dict `ss` at time t
AddMessage(ss, session_id, message, t) ==
    IF session_id \in DOMAIN ss
    THEN UpdateActivity([ss EXCEPT ![session_id].messages = Append(@, message)],
                        session_id, t)
    ELSE ss

\* `if session_id in sessions: del sessions[session_id]`, api.py 411-412
\* and SessionManager.delete_session 118-119
DeleteRecordOrAll(ss, session_id) ==
    IF session_id \in DOMAIN ss THEN DictDel(ss, session_id) ELSE EmptyDict
DeleteRecord(ss, session_id) ==
    IF session_id \in DOMAIN ss THEN DictDel(ss, session_id) ELSE ss

\* sessions_to_remove of SessionManager.cleanup_old_sessions, lines 90-95
\* (max_age in the unit of the clock)
RecordsToRemove(max_age) ==
    { sid \in DOMAIN sessions : now - sessions[sid].last_activity > max_age }

\* POST /api/agent/chat/new: SessionManager.create_session with the id
\* uuid4 returns, one it has never returned.  (agent.start_conversation
\* does not exist; the AttributeError is caught at api.py 148.)
CreateSession(session_id) ==
    /\ session_id \notin issued
    /\ issued' = issued \cup {session_id}
    /\ sessions' = DictSet(sessions, session_id, SessionRecord(session_id, now))
    /\ ret' = [NoRet EXCEPT !.op = "create_session", !.session_id = session_id]
    /\ UNCHANGED <<now, stream>>
    /\ UNCHANGED agentVars

\* POST /api/agent/chat/{session_id}, send_message: 404 for an unknown
\* session, else the user message is stored and the stream is returned.
SendMessage(r, session_id, message) ==
    /\ stream[r].pc = "idle"
    /\ \A q \in Requests : q < r => stream[q].pc # "idle"
    /\ IF session_id \in DOMAIN sessions
       THEN /\ sessions' = AddMessage(sessions, session_id,
                               [role |-> "user", content |-> message,
                                timestamp |-> now], now)
            /\ stream' = [stream EXCEPT ![r] =
                  [pc |-> "accepted", session_id |-> session_id,
                   message |-> message,
                   before |->
                     [record |-> sessions[session_id],
                      cache |-> DictGet(session_cache, session_id, EmptyDict),
                      history |-> GetConversation(conversations, session_id)]]]
            /\ ret' = [NoRet EXCEPT !.op = "send_message",
                                    !.session_id = session_id]
       ELSE /\ ret' = [NoRet EXCEPT !.op = "send_message",
                                    !.session_id = session_id,
                                    !.error = TRUE]
            /\ UNCHANGED <<sessions, stream>>
    /\ UNCHANGED <<now, issued>>
    /\ UNCHANGED agentVars

\* generate_sse_stream, lines 161-170: the stream starts and calls
\* agent.chat, which runs to its model call.
StreamChat(r) ==
    /\ stream[r].pc = "accepted"
    /\ chat[r].pc = "idle"
    /\ ChatAssemble(r, stream[r].session_id, stream[r].message)
    /\ stream' = [stream EXCEPT ![r].pc = "streaming"]
    /\ UNCHANGED <<sessions, issued>>

\* generate_sse_stream, lines 172-218: chat has returned and its words are
\* streamed, or it has raised and the error event is sent (212-215); then
\* update_activity.
StreamClose(r) ==
    /\ stream[r].pc = "streaming"
    /\ chat[r].pc \in {"done", "failed"}
    /\ sessions' = UpdateActivity(sessions, stream[r].session_id, now)
    /\ stream' = [stream EXCEPT ![r].pc = "closed"]
    /\ ret' = NoRet
    /\ UNCHANGED <<now, issued>>
    /\ UNCHANGED agentVars

\* DELETE /api/agent/chat/{session_id}, api.py 408-414: 404 for an
\* unknown session.
DeleteSession(session_id) ==
    /\ sessions' = DeleteRecord(sessions, session_id)
    /\ ret' = [NoRet EXCEPT !.op = "delete", !.session_id = session_id,
                            !.error = (session_id \notin DOMAIN sessions)]
    /\ UNCHANGED <<now, issued, stream>>
    /\ UNCHANGED agentVars

\* SessionManager.delete_session: True if deleted, False if not found
SessionManagerDelete(session_id) ==
    /\ sessions' = DeleteRecord(sessions, session_id)
    /\ ret' = [NoRet EXCEPT !.op = "delete_session",
                            !.session_id = session_id,
                            !.value = IF session_id \in DOMAIN sessions
                                      THEN <<"True">> ELSE <<"False">>]
    /\ UNCHANGED <<now, issued, stream>>
    /\ UNCHANGED agentVars

\* SessionManager.cleanup_old_sessions (returns nothing)
SessionManagerCleanup(max_age) ==
    /\ sessions' = [sid \in (DOMAIN sessions) \ RecordsToRemove(max_age) |->
                       sessions[sid]]
    /\ ret' = [NoRet EXCEPT !.op = "session_cleanup", !.max_age = max_age]
    /\ UNCHANGED <<now, issued, stream>>
    /\ UNCHANGED agentVars

\* Chat requests racing with each other, with the clock and with cleanup.
\* What a request says does not steer the race: one message (it needs a
\* skill, so every block of the request is present) and one answer (it
\* calls a tool) are enough here.
RaceMessages == { <<"create", "a", "docx">> }
RaceResponses == { rsp \in ModelResponses : rsp.stop_reason = "tool_use" }

NextChat ==
    \/ Tick
    \/ \E max_age \in 1..MaxAge : CleanupOldSessions(max_age)
    \/ \E r \in Requests, sid \in Sessions, m \in RaceMessages : ChatStart(r, sid, m)
    \/ \E r \in Requests, response \in RaceResponses : ChatComplete(r, response)
    \/ \E r \in Requests : ChatFail(r)

SpecChat == InitHistory /\ [][NextChat]_vars

\* One chat request, with every message and every answer, on each of the
\* initial histories: what request assembly is applied to.
NextAssemble ==
    \/ Tick
    \/ \E max_age \in 1..MaxAge : CleanupOldSessions(max_age)
    \/ \E sid \in Sessions, m \in Messages : ChatStart(1, sid, m)
    \/ \E response \in ModelResponses : ChatComplete(1, response)
    \/ ChatFail(1)

SpecAssemble == InitHistory /\ [][NextAssemble]_vars

\* Every operation that reads or writes the session side-cache: the direct
\* calls, cleanup, and one chat request (which gets and sets "docs").
NextCache ==
    \/ Tick
    \/ \E sid \in Sessions, k \in Keys, v \in Values : SetSessionCache(sid, k, v)
    \/ \E sid \in Sessions, k \in Keys : GetSessionCache(sid, k)
    \/ \E sid \in Sessions : ClearSessionCache(sid)
    \/ \E max_age \in 1..MaxAge : CleanupOldSessions(max_age)
    \/ \E sid \in Sessions, m \in Messages : ChatStart(1, sid, m)
    \/ \E response \in ModelResponses : ChatComplete(1, response)
    \/ ChatFail(1)

SpecCache == InitEmpty /\ [][NextCache]_vars

\* Chat requests of one session with every message, their failures and
\* their callers' retries, while the clock moves and the side-cache entry
\* expires.
RetrySessions == {"s1"}
NextRetry ==
    \/ Tick
    \/ \E r \in Requests, sid \in RetrySessions, m \in Messages : ChatStart(r, sid, m)
    \/ \E r \in Requests, sid \in RetrySessions, m \in Messages :
          ChatRetrievalFails(r, sid, m)
    \/ \E r \in Requests, response \in RaceResponses : ChatComplete(r, response)
    \/ \E r \in Requests : ChatFail(r)
    \/ \E r \in Requests : ChatRetry(r)

SpecRetry == InitEmpty /\ [][NextRetry]_vars

\* The API: sessions are created, one message is sent and streamed, and
\* sessions are deleted or cleaned up, in either store.
NextApi ==
    \/ Tick
    \/ \E sid \in Sessions : CreateSession(sid)
    \/ \E sid \in Sessions, m \in RaceMessages : SendMessage(1, sid, m)
    \/ StreamChat(1)
    \/ \E response \in RaceResponses : ChatComplete(1, response)
    \/ ChatFail(1)
    \/ StreamClose(1)
    \/ \E sid \in Sessions : DeleteSession(sid)
    \/ \E sid \in Sessions : SessionManagerDelete(sid)
    \/ \E max_age \in 1..MaxAge : SessionManagerCleanup(max_age)
    \/ \E max_age \in 1..MaxAge : CleanupOldSessions(max_age)

SpecApi == InitEmpty /\ [][NextApi]_vars

\* The API with a scheduler that keeps invoking both cleanups with the
\* same threshold while time passes: neither cleanup is postponed for
\* ever, and the clock does not stop before its bound.
ReapBoth ==
    \/ CleanupOldSessions(MaxAge)
    \/ SessionManagerCleanup(MaxAge)

NextReap ==
    \/ Tick
    \/ \E sid \in Sessions : CreateSession(sid)
    \/ \E sid \in Sessions, m \in RaceMessages : SendMessage(1, sid, m)
    \/ StreamChat(1)
    \/ \E response \in RaceResponses : ChatComplete(1, response)
    \/ ChatFail(1)
    \/ StreamClose(1)
    \/ ReapBoth

SpecReap ==
    /\ InitEmpty /\ [][NextReap]_vars
    /\ WF_vars(Tick)
    /\ WF_vars(CleanupOldSessions(MaxAge))
    /\ WF_vars(SessionManagerCleanup(MaxAge))

\* The readers of a session's history, called with every count 0..MaxN on
\* sessions that hold 0..MaxTurns turns or none, while one chat request
\* appends a turn.
NextTurns ==
    \/ Tick
    \/ \E sid \in Sessions : ReadConversation(sid)
    \/ \E sid \in Sessions, n \in 0..MaxN : GetLastNTurns(sid, n)
    \/ \E sid \in Sessions, m \in RaceMessages : ChatStart(1, sid, m)
    \/ \E response \in RaceResponses : ChatComplete(1, response)
    \/ ChatFail(1)

SpecTurns == InitHistory /\ [][NextTurns]_vars

\* The cost of every usage whose counts are in -1..MaxTokens or absent.
NextCost == \E usage \in Usages : CalculateCost(usage)

SpecCost == InitEmpty /\ [][NextCost]_vars

\* ======================================================== properties
IsPrefix(a, b) == Len(a) <= Len(b) /\ SubSeq(b, 1, Len(a)) = a

Started == { r \in Requests : chat[r].pc # "idle" }

\* the messages of a request that one append site emitted, in order
AtSite(messages, sites) == SelectSeq(messages, LAMBDA m : m.site \in sites)

HasBreakpoint(m) == \E i \in 1..Len(m.content) : m.content[i].cache_control

\* C1: of two chat requests whose turns are both in a session's history, the
\* one appended second assembled its request from a history that already
\* held the first one's turn.
C1_Serialized ==
    \A sid \in DOMAIN conversations :
        \A i, j \in 1..Len(conversations[sid]) :
            LET first == conversations[sid][i]
                second == conversations[sid][j]
            IN  (i < j /\ first.by # 0 /\ second.by # 0)
                => \E k \in 1..Len(chat[second.by].conversation) :
                       chat[second.by].conversation[k] = first

\* C2: with no cleanup of the session since its requests read it, every
\* completed chat request has exactly one turn in the session's history,
\* holding its message and its processed answer; the history holds as many
\* chat turns as requests completed; and what each request read is still a
\* prefix of the history (nothing older was lost).
C2_AppendExactlyOnce ==
    \A sid \in Sessions :
        LET conv == GetConversation(conversations, sid)
            mine == { r \in Started : chat[r].session_id = sid }
            done == { r \in mine : chat[r].pc = "done" }
        IN  (\A r \in mine : ~chat[r].cleanedSince)
            => /\ \A r \in done :
                     /\ Cardinality({ i \in 1..Len(conv) : conv[i].by = r }) = 1
                     /\ \A i \in 1..Len(conv) :
                           conv[i].by = r
                           => conv[i].user_message = chat[r].message
               /\ Cardinality({ i \in 1..Len(conv) : conv[i].by # 0 })
                     = Cardinality(done)
               /\ \A r \in mine : IsPrefix(chat[r].conversation, conv)

\* Two requests that read the same history of one session (they ran
\* concurrently) have both completed.
C2_Witness ==
    \E a, b \in Requests :
        /\ a # b
        /\ chat[a].pc = "done" /\ chat[b].pc = "done"
        /\ chat[a].session_id = chat[b].session_id
        /\ chat[a].conversation = chat[b].conversation
        /\ ~chat[a].cleanedSince /\ ~chat[b].cleanedSince

\* C3: cleanup never removes the session of a chat request that is in
\* flight (between its read of the history and its append).
C3_NoReapInFlight ==
    \A r \in Requests : chat[r].pc = "awaiting" => ~chat[r].cleanedSince

\* C4: over successive assemblies of one session (requests start in the
\* order of their numbers) the cacheable prefix only grows: an earlier
\* assembly's prefix is a prefix of every later one's.
C4_PrefixMonotone ==
    \A a, b \in Started :
        (a < b /\ chat[a].session_id = chat[b].session_id)
        => IsPrefix(CachedTurns(chat[a].conversation),
                    CachedTurns(chat[b].conversation))

\* C5: a history of n turns is split at p = max(0, n - 2): the request
\* carries every stored turn exactly once and in stored order as a user /
\* assistant pair, the first p turns from the "older" loop and the last
\* n - p from the "recent" loop; for n < 2 nothing is older.
C5_BoundarySplit ==
    \A r \in Started :
        LET conv == chat[r].conversation
            n == Len(conv)
            p == Max(0, n - 2)
            hist == AtSite(chat[r].request.messages, {"older", "recent"})
        IN  /\ Len(hist) = 2 * n
            /\ \A i \in 1..n :
                  /\ hist[2 * i - 1].role = "user"
                  /\ hist[2 * i - 1].content = << Part(conv[i].user_message, FALSE) >>
                  /\ hist[2 * i].role = "assistant"
                  /\ hist[2 * i].content = << Part(conv[i].agent_response, FALSE) >>
                  /\ hist[2 * i].site = (IF i <= p THEN "older" ELSE "recent")
                  /\ hist[2 * i - 1].site = hist[2 * i].site
            /\ (n < 2 => AtSite(chat[r].request.messages, {"older"}) = <<>>)

\* A request assembled from three turns: one older, two recent.
C5_Witness ==
    \E r \in Requests :
        /\ chat[r].pc = "awaiting"
        /\ Len(chat[r].conversation) = 3
        /\ Len(AtSite(chat[r].request.messages, {"older"})) = 2
        /\ Len(AtSite(chat[r].request.messages, {"recent"})) = 4

\* the place of a block in the order the specification gives
BlockRank(site) ==
    CASE site = "skill" -> 1
      [] site = "doc" -> 2
      [] site = "older" -> 3
      [] site = "recent" -> 4
      [] site = "message" -> 5

\* C6: the messages of every request come in the order capability context,
\* side data, older turns, recent turns, new user message, the new user
\* message last.
C6_BlockOrder ==
    \A r \in Started :
        LET msgs == chat[r].request.messages
        IN  /\ msgs[Len(msgs)].site = "message"
            /\ \A i, j \in 1..Len(msgs) :
                  i < j => BlockRank(msgs[i].site) <= BlockRank(msgs[j].site)

\* C7: a non-empty older prefix carries a cache breakpoint at its end, and
\* no recent turn and never the new user message carries one.
C7_PrefixMarked ==
    \A r \in Started :
        LET msgs == chat[r].request.messages
            older == AtSite(msgs, {"older"})
            fresh == AtSite(msgs, {"recent", "message"})
        IN  /\ older # <<>> => HasBreakpoint(older[Len(older)])
            /\ \A i \in 1..Len(fresh) : ~HasBreakpoint(fresh[i])

\* every breakpoint of a message sits on its last content part
BreakpointsLast(msgs) ==
    \A i \in 1..Len(msgs) :
        \A k \in 1..Len(msgs[i].content) :
            msgs[i].content[k].cache_control => k = Len(msgs[i].content)

\* how many content parts of `msgs` carry a breakpoint
RECURSIVE Breakpoints(_)
Breakpoints(msgs) ==
    IF msgs = <<>> THEN 0
    ELSE Cardinality({ k \in 1..Len(Head(msgs).content) :
                          Head(msgs).content[k].cache_control })
         + Breakpoints(Tail(msgs))

\* C8 as stated: breakpoints sit at the end of a content list, and of two
\* adjacent cacheable blocks (capability context followed by side data)
\* only the last carries one.
C8_OneBreakpointPerRun ==
    \A r \in Started :
        LET msgs == chat[r].request.messages
        IN  /\ BreakpointsLast(msgs)
            /\ (AtSite(msgs, {"skill"}) # <<>> /\ AtSite(msgs, {"doc"}) # <<>>)
               => Breakpoints(AtSite(msgs, {"skill"})) = 0

\* C8 as amended: a breakpoint sits only on the last content part of a
\* message; every cacheable block that is present (system, tools,
\* capability context, side data) carries exactly one breakpoint of its own.
C8_BreakpointPerBlock ==
    \A r \in Started :
        LET req == chat[r].request
            msgs == req.messages
        IN  /\ BreakpointsLast(msgs)
            /\ \A site \in {"skill", "doc"} :
                  AtSite(msgs, {site}) # <<>>
                  => Breakpoints(AtSite(msgs, {site})) = 1
            /\ Len(req.system) = 1 /\ req.system[1].cache_control
            /\ \A i \in 1..Len(req.tools) :
                  req.tools[i].cache_control <=> i = Len(req.tools)

\* A request with both the capability-context and the side-data block.
C8_Witness ==
    \E r \in Requests :
        /\ chat[r].pc = "awaiting"
        /\ AtSite(chat[r].request.messages, {"skill"}) # <<>>
        /\ AtSite(chat[r].request.messages, {"doc"}) # <<>>

\* the entry <<session, key>> that the get of `ret` read
RetEntry == << ret.session_id, ret.key >>

\* C9 as stated: a get of an entry written at T returns the value at every
\* time < T + TTL and absent at every time >= T + TTL.
C9_AbsentFromTtl ==
    (ret.op = "get" /\ written[RetEntry] # NoWrite)
    => /\ now - written[RetEntry].at < cache_ttl
             => ret.value = written[RetEntry].value
       /\ now - written[RetEntry].at >= cache_ttl => ret.value = None

\* C9 as amended: a get of an entry last written at T (and not cleared
\* since) returns the written value at every time <= T + TTL and absent at
\* every time > T + TTL; a get of a key never written or cleared is absent.
C9_TtlFromWrite ==
    ret.op = "get"
    => IF written[RetEntry] # NoWrite
          /\ now - written[RetEntry].at <= cache_ttl
       THEN ret.value = written[RetEntry].value
       ELSE ret.value = None

\* A get exactly TTL after the write, which returns the value.
C9_Witness ==
    /\ ret.op = "get"
    /\ written[RetEntry] # NoWrite
    /\ now - written[RetEntry].at = cache_ttl
    /\ ret.value = written[RetEntry].value

\* C10: once a get has found an entry expired, neither its value nor its
\* timestamp is left, and until the key is set again every get of it
\* returns absent and raises nothing.
C10_NoResidue ==
    \A e \in Entries :
        evicted[e]
        => /\ e[2] \notin DOMAIN DictGet(session_cache, e[1], EmptyDict)
           /\ e[2] \notin DOMAIN DictGet(cache_timestamps, e[1], EmptyDict)
           /\ (ret.op = "get" /\ RetEntry = e)
                 => (ret.value = None /\ ~ret.error)

\* A second get of a key that an earlier get evicted.
C10_Witness ==
    /\ ret.op = "get"
    /\ evicted[RetEntry]
    /\ ~ret.expired
    /\ ret.value = None

\* C11: the value and the write time held for a side-cache key are those of
\* its most recent set: a get that finds the entry leaves both as they were
\* (no sliding expiry), and a set replaces the value and restarts the TTL
\* at the time of that set.
C11_ExpiryFixedBySet ==
    \A e \in Entries :
        e[2] \in DOMAIN DictGet(session_cache, e[1], EmptyDict)
        => /\ written[e] # NoWrite
           /\ session_cache[e[1]][e[2]] = written[e].value
           /\ e[2] \in DOMAIN DictGet(cache_timestamps, e[1], EmptyDict)
           /\ cache_timestamps[e[1]][e[2]] = written[e].at

\* A get finds the value of a set made after the clock had moved, in a
\* session where a chat request had earlier stored its retrieved
\* documentation under the same key: the set replaced that entry, and the
\* read after the set did not move its write time.
C11_Witness ==
    /\ ret.op = "get"
    /\ ret.key = "docs"
    /\ ret.value \in Values
    /\ written[RetEntry].at > 0
    /\ now > written[RetEntry].at
    /\ chat[1].pc # "idle"
    /\ chat[1].session_id = ret.session_id
    /\ ~chat[1].cleanedSince
    /\ AtSite(chat[1].request.messages, {"doc"}) # DocMessages(ret.value)

\* request r assembles in this step (a first call of chat or a retry)
Assembles(r) == chat[r].pc \in {"idle", "failed"} /\ chat'[r].pc = "awaiting"

\* the session's side-cache holds a usable "docs" entry now
DocsFresh(session_id) ==
    /\ "docs" \in DOMAIN DictGet(session_cache, session_id, EmptyDict)
    /\ now - cache_timestamps[session_id]["docs"] <= cache_ttl
    /\ session_cache[session_id]["docs"] # EmptyText

\* the side-data block of the request in frame f
DocBlock(f) == AtSite(f.request.messages, {"doc"})

\* C12: an assembly calls the retrieval only when the session's side-cache
\* holds no unexpired "docs" entry, and then stores the formatted result
\* under "docs" at the current time; when an unexpired entry is there the
\* assembly takes its side-data block from it, calls no retrieval and
\* leaves the side-cache as it is.
C12_RetrievalOnlyOnMiss ==
    [][\A r \in Requests :
         Assembles(r)
         => LET sid == chat'[r].session_id
                context == FormatDocsForCache(
                               SearchDocumentation(chat'[r].message))
            IN  IF DocsFresh(sid)
                THEN /\ ~chat'[r].retrieved
                     /\ DocBlock(chat'[r]) = DocMessages(session_cache[sid]["docs"])
                     /\ session_cache' = session_cache
                     /\ cache_timestamps' = cache_timestamps
                ELSE /\ chat'[r].retrieved
                     /\ DocBlock(chat'[r]) = DocMessages(context)
                     /\ session_cache'[sid]["docs"] = context
                     /\ cache_timestamps'[sid]["docs"] = now]_vars

\* Two requests of one session with different messages: the first
\* retrieved, the second did not and carries the first one's documentation.
C12_Witness ==
    /\ chat[1].pc = "awaiting" /\ chat[2].pc = "awaiting"
    /\ chat[1].session_id = chat[2].session_id
    /\ chat[1].message # chat[2].message
    /\ chat[1].retrieved /\ ~chat[2].retrieved
    /\ DocBlock(chat[2]) = DocBlock(chat[1])
    /\ DocBlock(chat[2]) # <<>>

\* C13: a request whose retrieval failed still assembles a model request
\* (without the side-data block) and goes on to the model call; no request
\* ends with the retrieval's exception.
C13_RetrievalFailureOmitsBlock ==
    \A r \in Requests :
        chat[r].pc # "raised"

\* C14: a request has a turn in the history only once its response has
\* been processed: a request that is awaiting, or whose model call or
\* retrieval failed, has appended nothing, and a completed request has
\* appended exactly one turn, which holds its message (the history of this
\* specification is never cleaned up).
C14_TurnOnlyAfterResponse ==
    \A r \in Requests :
        LET conv == GetConversation(conversations, chat[r].session_id)
            mine == { i \in 1..Len(conv) : conv[i].by = r }
        IN  /\ \A sid \in DOMAIN conversations :
                  sid # chat[r].session_id
                  => \A i \in 1..Len(conversations[sid]) :
                        conversations[sid][i].by # r
            /\ chat[r].pc # "done" => mine = {}
            /\ chat[r].pc = "done"
                  => /\ Cardinality(mine) = 1
                     /\ \A i \in mine :
                           /\ conv[i].user_message = chat[r].message
                           /\ \E rsp \in ModelResponses :
                                 conv[i].agent_response = ProcessResponse(rsp).message

\* A request's model call failed in a session where another request
\* completed: the history holds the completed one's turn only.
C14_Witness ==
    \E a, b \in Requests :
        /\ chat[a].pc = "failed" /\ chat[b].pc = "done"
        /\ chat[a].session_id = chat[b].session_id
        /\ Len(GetConversation(conversations, chat[a].session_id)) = 1

\* request r is retried in this step, on the history its failed call read
RetriesOnSameHistory(r) ==
    /\ chat[r].pc = "failed" /\ chat'[r].pc = "awaiting"
    /\ GetConversation(conversations, chat[r].session_id) = chat[r].conversation

IdleTime(convs, session_id) ==
    now - convs[session_id][Len(convs[session_id])].timestamp

\* d without the keys in `gone`
Without(d, gone) == [k \in (DOMAIN d) \ gone |-> d[k]]

C15_FailureLeavesState ==
    \A r \in Requests :
        (/\ stream[r].pc = "streaming"
         /\ chat[r].pc = "failed"
         /\ ~chat[r].cleanedSince
         /\ stream[r].session_id \in DOMAIN sessions)
        => /\ sessions[stream[r].session_id] = stream[r].before.record
           /\ DictGet(session_cache, stream[r].session_id, EmptyDict)
                 = stream[r].before.cache
           /\ GetConversation(conversations, stream[r].session_id)
                 = stream[r].before.history

\* the agent holds something under the session id
AgentHolds(session_id) ==
    \/ session_id \in DOMAIN conversations
    \/ session_id \in DOMAIN session_cache
    \/ session_id \in DOMAIN cache_timestamps
    \/ session_id \in DOMAIN session_start_times

\* C19: no state has the record of a session gone while its history or
\* side-cache entries are still there.
C19_DeletedTogether ==
    \A sid \in issued : sid \notin DOMAIN sessions => ~AgentHolds(sid)

\* everything but the clock, the result and the session records is left
\* as it was
OnlyRecordsChange ==
    /\ UNCHANGED <<now, issued, stream>>
    /\ UNCHANGED agentVars

\* C20 as stated: deleting a session id that is unknown or already deleted
\* changes nothing and signals no error.
C20_DeleteUnknownSilent ==
    [][(/\ ret'.op \in {"delete", "delete_session"}
        /\ ret'.session_id \notin DOMAIN sessions)
       => /\ sessions' = sessions
          /\ OnlyRecordsChange
          /\ ~ret'.error]_vars

\* C20 as amended: deleting a session id that is unknown or already deleted
\* changes nothing; SessionManager.delete_session returns False for it and
\* the DELETE endpoint answers 404.  Deleting a known id removes its record
\* and nothing else, so a second delete leaves what the first left.
C20_DeleteUnknownNoChange ==
    [][ret'.op \in {"delete", "delete_session"}
       => /\ OnlyRecordsChange
          /\ sessions' = [sid \in (DOMAIN sessions) \ {ret'.session_id} |->
                             sessions[sid]]
          /\ ret'.op = "delete"
                => (ret'.error <=> ret'.session_id \notin DOMAIN sessions)
          /\ ret'.op = "delete_session"
                => /\ ~ret'.error
                   /\ ret'.value = IF ret'.session_id \in DOMAIN sessions
                                   THEN <<"True">> ELSE <<"False">>]_vars

\* The DELETE endpoint has answered 404 for a session that had been
\* created and deleted, while another session is still there.
C20_Witness ==
    /\ ret.op = "delete"
    /\ ret.error
    /\ ret.session_id \in issued
    /\ ret.session_id \notin DOMAIN sessions
    /\ sessions # EmptyDict

\* something is stored under the session id, in either store
HasState(session_id) == session_id \in DOMAIN sessions \/ AgentHolds(session_id)

\* the session has state, no request of it is under way, and everything
\* stored under its id was last touched more than MaxAge ago
IdleTooLong(session_id) ==
    /\ HasState(session_id)
    /\ \A r \in Requests :
          stream[r].session_id = session_id => stream[r].pc = "closed"
    /\ session_id \in DOMAIN sessions
          => now - sessions[session_id].last_activity > MaxAge
    /\ session_id \in DOMAIN conversations
          => IdleTime(conversations, session_id) > MaxAge
    /\ \A k \in DOMAIN DictGet(cache_timestamps, session_id, EmptyDict) :
          now - cache_timestamps[session_id][k] > MaxAge

\* C18: with both cleanups invoked again and again, a session that has
\* been inactive for more than MaxAge does not stay so for ever: its state
\* is removed (or it is used again).
C18_EventuallyReaped ==
    \A sid \in Sessions : IdleTooLong(sid) ~> ~IdleTooLong(sid)


\* C21: a chat turn for a session that does not exist (never created, or
\* deleted before the turn completes) is answered with an error, and no
\* step appends a turn to, or creates a history, a start time or a
\* side-cache entry for, a session id that has no record.
C21_NoTurnWithoutSession ==
    [][\A sid \in Sessions :
          sid \notin DOMAIN sessions
          => /\ (ret'.op = "send_message" /\ ret'.session_id = sid)
                   => ret'.error
             /\ Len(GetConversation(conversations', sid))
                   <= Len(GetConversation(conversations, sid))
             /\ sid \in DOMAIN conversations' => sid \in DOMAIN conversations
             /\ sid \in DOMAIN session_start_times'
                   => sid \in DOMAIN session_start_times
             /\ DOMAIN DictGet(session_cache', sid, EmptyDict)
                   \subseteq DOMAIN DictGet(session_cache, sid, EmptyDict)]_vars

\* C22: add_turn always appends its turn at the end of the session's
\* history (a chat request that gets its answer always saves its turn, as
\* the last one), and no step changes, reorders or removes a turn of a
\* history except cleanup, which removes the session's whole history.
C22_TurnsAppendOnly ==
    [][\A sid \in Sessions :
          LET old == GetConversation(conversations, sid)
              new == GetConversation(conversations', sid)
          IN  /\ \/ IsPrefix(old, new) /\ Len(new) <= Len(old) + 1
                 \/ /\ ret'.op = "cleanup"
                    /\ sid \notin DOMAIN conversations'
              /\ \A r \in Requests :
                    (/\ chat[r].pc = "awaiting"
                     /\ chat'[r].pc = "done"
                     /\ chat[r].session_id = sid)
                    => /\ new = Append(old, new[Len(new)])
                       /\ new[Len(new)].user_message = chat[r].message
                       /\ new[Len(new)].timestamp = now]_vars

\* A request has saved its turn behind turns the session already had, and
\* a cleanup has then removed another session and kept this one.
C22_Witness ==
    \E r \in Requests :
        LET conv == GetConversation(conversations, chat[r].session_id)
        IN  /\ chat[r].pc = "done"
            /\ Len(conv) >= 2
            /\ conv[Len(conv)].by = r
            /\ conv[1].by = 0
            /\ ret.op = "cleanup"
            /\ ret.count > 0

\* C23: reading the history of a session id that has no turns returns the
\* empty sequence, signals nothing, and leaves every store as it was: the
\* known sessions and the active-session count are the same afterwards.
C23_ReadCreatesNothing ==
    [][(/\ ret'.op = "get_conversation"
        /\ GetConversation(conversations, ret'.session_id) = <<>>)
       => /\ ret'.turns = <<>>
          /\ ~ret'.error
          /\ conversations' = conversations
          /\ GetAllSessions(conversations') = GetAllSessions(conversations)
          /\ GetActiveSessionCount(conversations')
                = GetActiveSessionCount(conversations)
          /\ UNCHANGED <<session_cache, cache_timestamps,
                         session_start_times>>]_vars

\* The history of a session nobody has written to has been read while
\* another session holds turns.
C23_Witness ==
    /\ ret.op = "get_conversation"
    /\ ret.session_id \notin DOMAIN conversations
    /\ ret.turns = <<>>
    /\ GetActiveSessionCount(conversations) = 1

\* the last Min(n, Len) turns of a history, in order
LastTurns(conversation, n) ==
    SubSeq(conversation, Len(conversation) - Min(n, Len(conversation)) + 1,
           Len(conversation))

\* C24: get_last_n_turns(session, n) returns exactly the last
\* min(n, length) turns of the session's history, in order, for every
\* n >= 0 and every length.
C24_LastMinTurns ==
    ret.op = "get_last_n_turns"
    => ret.turns = LastTurns(GetConversation(conversations, ret.session_id),
                             ret.n)

\* the count of a usage, 0 when the usage does not have it
CountOf(usage, field) == DictGet(usage, field, 0)

\* the rate the source's comments give per field, in 10^-8 dollar per
\* token: 3.00, 15.00, 3.75 and 0.30 dollars per million
RateOf ==
    [f \in UsageFields |->
        CASE f = "input_tokens" -> 300
          [] f = "output_tokens" -> 1500
          [] f = "cache_creation_input_tokens" -> 375
          [] f = "cache_read_input_tokens" -> 30]

\* C25: when the cost is computed, each amount of the breakdown is its
\* count times its rate and the total is their sum; one more token of a
\* kind adds exactly that kind's rate to the total; and a usage of all
\* zeros costs nothing, saves nothing and has a savings percentage of 0.
C25_TotalIsSumOfCounts ==
    (ret.op = "cost" /\ ret.cost.raised = "none")
    => LET u == ret.usage
           c == ret.cost
       IN  /\ c.breakdown.prompt = CountOf(u, "input_tokens") * 300
           /\ c.breakdown.cache_write
                 = CountOf(u, "cache_creation_input_tokens") * 375
           /\ c.breakdown.cache_read
                 = CountOf(u, "cache_read_input_tokens") * 30
           /\ c.breakdown.output = CountOf(u, "output_tokens") * 1500
           /\ c.total = c.breakdown.prompt + c.breakdown.cache_write
                        + c.breakdown.cache_read + c.breakdown.output
           /\ \A f \in DOMAIN u :
                 LET more == CalculateCostWithCache([u EXCEPT ![f] = @ + 1])
                 IN  more.raised = "none" => more.total = c.total + RateOf[f]
           /\ (\A f \in UsageFields : CountOf(u, f) = 0)
                 => /\ c.total = 0
                    /\ c.breakdown = NoCosts
                    /\ c.savings = 0
                    /\ c.savings_percentage.num = 0

\* The cost of a usage with four positive counts, not all equal, has been
\* computed.
C25_Witness ==
    /\ ret.op = "cost"
    /\ ret.cost.raised = "none"
    /\ DOMAIN ret.usage = UsageFields
    /\ \A f \in UsageFields : ret.usage[f] >= 1
    /\ ret.usage["cache_creation_input_tokens"] # ret.usage["input_tokens"]
    /\ ret.cost.total > 0

\* C26: the savings are the cache-read count times the difference of the
\* fresh-input rate and the cache-read rate; the cache-read rate is below
\* the fresh-input rate, which is below the cache-write rate; so for a
\* cache-read count that is a count (not negative) the savings are never
\* negative, and they are 0 exactly when no token was read from the cache.
C26_SavingsFromCacheReads ==
    /\ CACHE_READ_PRICE < PROMPT_PRICE
    /\ PROMPT_PRICE < CACHE_WRITE_PRICE
    /\ (/\ ret.op = "cost"
        /\ ret.cost.raised = "none"
        /\ CountOf(ret.usage, "cache_read_input_tokens") >= 0)
       => LET cache_read == CountOf(ret.usage, "cache_read_input_tokens")
          IN  /\ ret.cost.savings = cache_read * (300 - 30)
              /\ ret.cost.savings >= 0
              /\ ret.cost.savings = 0 <=> cache_read = 0
              /\ ret.cost.savings
                    = cache_read * PROMPT_PRICE - ret.cost.breakdown.cache_read

\* The cost of a usage that read tokens from the cache, and wrote some,
\* has been computed, with savings.
C26_Witness ==
    /\ ret.op = "cost"
    /\ ret.cost.raised = "none"
    /\ \A f \in DOMAIN ret.usage : ret.usage[f] >= 0
    /\ CountOf(ret.usage, "cache_read_input_tokens") > 1
    /\ CountOf(ret.usage, "cache_creation_input_tokens") > 0
    /\ ret.cost.savings > 0

\* the usage with every absent or negative count replaced by 0
Clamped(usage) == [f \in UsageFields |-> Max(CountOf(usage, f), 0)]

\* C27: the cost computation has no error outcome; absent or negative
\* counts are costed as zero; and no amount of the result is negative.
C27_CostNeverFails ==
    ret.op = "cost"
    => /\ ret.cost.raised = "none"
       /\ ret.cost.total >= 0
       /\ ret.cost.savings >= 0
       /\ ret.cost.breakdown.prompt >= 0
       /\ ret.cost.breakdown.cache_write >= 0
       /\ ret.cost.breakdown.cache_read >= 0
       /\ ret.cost.breakdown.output >= 0
       /\ ret.cost = CalculateCostWithCache(Clamped(ret.usage))

\* what the conversation manager holds for one session: its history, its
\* side-cache entries with their times, and its start time
HeldFor(convs, sc, ts, st, sid) ==
    << DictGet(convs, sid, <<>>), DictGet(sc, sid, EmptyDict),
       DictGet(ts, sid, EmptyDict), DictGet(st, sid, 0 - 1),
       sid \in DOMAIN convs, sid \in DOMAIN sc, sid \in DOMAIN ts >>

\* the session a step operates on: that of a direct side-cache call, or
\* that of the chat request that moved (it gets and sets the side-cache,
\* and adds its turn)
Operated(sid) ==
    \/ ret'.op \in {"set", "get", "clear"} /\ ret'.session_id = sid
    \/ \E r \in Requests : chat'[r] # chat[r] /\ chat'[r].session_id = sid

\* C28: sessions are isolated.  add_turn, a side-cache set, a side-cache
\* get (with its lazy eviction) and a side-cache clear on one session
\* leave the history and the side-cache of every other session as they
\* were.
C28_SessionsIsolated ==
    [][ret'.op # "cleanup"
       => \A sid \in Sessions :
             ~Operated(sid)
             => HeldFor(conversations', session_cache', cache_timestamps',
                        session_start_times', sid)
                = HeldFor(conversations, session_cache, cache_timestamps,
                          session_start_times, sid)]_vars

\* The side-cache of one session has been cleared while another session
\* holds a side-cache entry and a turn.
C28_Witness ==
    /\ ret.op = "clear"
    /\ ret.session_id \notin DOMAIN session_cache
    /\ \E sid \in Sessions \ {ret.session_id} :
          /\ DictGet(session_cache, sid, EmptyDict) # EmptyDict
          /\ GetConversation(conversations, sid) # <<>>

\* the requests that have appended their turn to the session's history
Appended(sid) ==
    { r \in Requests : chat[r].pc = "done" /\ chat[r].session_id = sid }

\* C29: once no request of a session is in flight, the turn_count of its
\* record is the number of turns that were appended to its history, and
\* its last_activity is not earlier than the latest turn it holds.
C29_TurnCountIsTurns ==
    \A sid \in DOMAIN sessions :
        (\A r \in Requests :
            stream[r].session_id = sid => stream[r].pc = "closed")
        => /\ sessions[sid].turn_count = Cardinality(Appended(sid))
           /\ \A i \in 1..Len(GetConversation(conversations, sid)) :
                 conversations[sid][i].timestamp <= sessions[sid].last_activity

\* the "docs" entry of a session's side-cache, None when there is none
DocsEntry(sc, sid) == DictGet(DictGet(sc, sid, EmptyDict), "docs", None)

====
